---------------------------- MODULE Spec2Model ----------------------------
(***************************************************************************)
(* Model of the Jira release dashboard back end:                           *)
(*   - the list operation        GET /api/issues        (issues/route.ts)  *)
(*   - the detail operation      GET /api/issue/[key]   (issue/[key])      *)
(*   - the attachment proxy      GET (unnamed/part_000)                    *)
(* Strings are sequences of one-character strings so that trim, split,     *)
(* toLowerCase, Number and the regular-expression replaces are computed    *)
(* as the code computes them.  The three accented letters of the month     *)
(* table are written "e_dot", "z_caron", "u_macron" (and "E_DOT", ...).    *)
(***************************************************************************)
EXTENDS Integers, Sequences, FiniteSets, TLC

VARIABLES
  op,             \* operation the request runs: "parse", "list", "detail", "attachment"
  pc,             \* position of the handler
  env,            \* process.env: the three JIRA_* settings
  input,          \* the request's own input (label, issue key, contentUrl)
  safety,         \* list: loop counter
  nextPageToken,  \* list: cursor held by the loop
  allIssuesRaw,   \* list: accumulator
  inflight,       \* upstream request awaiting its answer (body/cursor), or NoRequest
  upstream,       \* number of upstream requests issued so far
  received,       \* history: the last upstream answer and how many have arrived
  pages,          \* history: the non-empty pages of records received so far
  parsed,         \* parse: the result of parseLtFixVersion
  page,           \* page.tsx: the modal's state and its outstanding detail calls
  response        \* the HTTP response of the operation, or NoResponse

vars == <<page, op, pc, env, input, safety, nextPageToken, allIssuesRaw, inflight,
          upstream, received, pages, parsed, response>>

---------------------------------------------------------------------------
(* Strings *)

\* JavaScript undefined / null for a string-valued slot.
Undefined == <<"#undefined">>

S0 == <<>>
SP == <<" ">>

\* \s of the regular expressions and of trim, on the model's characters
IsSpace(c) == c \in {" ", "\t", "\n"}

Digits == <<"0", "1", "2", "3", "4", "5", "6", "7", "8", "9">>

IsDigit(c) == \E i \in 1..Len(Digits) : Digits[i] = c

DigitVal(c) == (CHOOSE i \in 1..Len(Digits) : Digits[i] = c) - 1

UpperChars == <<"A", "B", "C", "D", "E", "F", "G", "H", "I", "J", "K", "L", "M",
                "N", "O", "P", "Q", "R", "S", "T", "U", "V", "W", "X", "Y", "Z",
                "E_DOT", "Z_CARON", "U_MACRON">>

LowerChars == <<"a", "b", "c", "d", "e", "f", "g", "h", "i", "j", "k", "l", "m",
                "n", "o", "p", "q", "r", "s", "t", "u", "v", "w", "x", "y", "z",
                "e_dot", "z_caron", "u_macron">>

\* String.prototype.toLowerCase, one character
LowerChar(c) ==
  IF \E i \in 1..Len(UpperChars) : UpperChars[i] = c
  THEN LowerChars[CHOOSE i \in 1..Len(UpperChars) : UpperChars[i] = c]
  ELSE c

toLowerCase(s) == [i \in 1..Len(s) |-> LowerChar(s[i])]

RECURSIVE TrimStart(_)
TrimStart(s) ==
  IF s # <<>> /\ IsSpace(Head(s)) THEN TrimStart(Tail(s)) ELSE s

RECURSIVE TrimEnd(_)
TrimEnd(s) ==
  IF s # <<>> /\ IsSpace(s[Len(s)]) THEN TrimEnd(SubSeq(s, 1, Len(s) - 1)) ELSE s

\* String.prototype.trim
trim(s) == TrimEnd(TrimStart(s))

\* index of the first whitespace character of s, Len(s)+1 when there is none
FirstSpace(s) ==
  IF \E i \in 1..Len(s) : IsSpace(s[i])
  THEN CHOOSE i \in 1..Len(s) : IsSpace(s[i]) /\ \A j \in 1..(i - 1) : ~IsSpace(s[j])
  ELSE Len(s) + 1

\* s.split(/\s+/), with i the index of the first whitespace character of s
RECURSIVE SplitWsAt(_, _)
SplitWsAt(s, i) ==
  IF i > Len(s) THEN <<s>>
  ELSE <<SubSeq(s, 1, i - 1)>>
       \o SplitWsAt(TrimStart(SubSeq(s, i, Len(s))),
                    FirstSpace(TrimStart(SubSeq(s, i, Len(s)))))

\* s.split(/\s+/)
SplitWs(s) == SplitWsAt(s, FirstSpace(s))

\* parts.join(" ")
RECURSIVE JoinSp(_)
JoinSp(parts) ==
  IF parts = <<>> THEN S0
  ELSE IF Len(parts) = 1 THEN parts[1]
  ELSE parts[1] \o SP \o JoinSp(Tail(parts))

RECURSIVE Pow10(_)
Pow10(n) == IF n = 0 THEN 1 ELSE 10 * Pow10(n - 1)

RECURSIVE DecVal(_)
DecVal(ds) ==
  IF ds = <<>> THEN 0 ELSE 10 * DecVal(SubSeq(ds, 1, Len(ds) - 1)) + DigitVal(ds[Len(ds)])

AllDigits(s) == \A i \in 1..Len(s) : IsDigit(s[i])

NaN == [finite |-> FALSE, num |-> 0, den |-> 1]

\* the decimal literal with integer digits ip and fraction digits fp
DecimalValue(sgn, ip, fp) ==
  IF ~AllDigits(ip \o fp) \/ Len(ip) + Len(fp) = 0 THEN NaN
  ELSE [finite |-> TRUE, num |-> sgn * DecVal(ip \o fp), den |-> Pow10(Len(fp))]

\* index of the first "." of body, Len(body)+1 when there is none
DotIndex(body) ==
  IF \E i \in 1..Len(body) : body[i] = "."
  THEN CHOOSE i \in 1..Len(body) : body[i] = "." /\ \A j \in 1..(i - 1) : body[j] # "."
  ELSE Len(body) + 1

DecimalAt(sgn, body, dot) ==
  DecimalValue(sgn, SubSeq(body, 1, dot - 1), SubSeq(body, dot + 1, Len(body)))

IsSigned(t) == t # <<>> /\ t[1] \in {"+", "-"}

NumberTrimmed(t) ==
  IF t = <<>> THEN [finite |-> TRUE, num |-> 0, den |-> 1]
  ELSE DecimalAt(IF t[1] = "-" THEN -1 ELSE 1,
                 IF IsSigned(t) THEN Tail(t) ELSE t,
                 DotIndex(IF IsSigned(t) THEN Tail(t) ELSE t))

\* Number(string) on the decimal literals of the model's alphabet: optional
\* sign, digits, optional fraction (a second "." leaves a non-digit in the
\* fraction: NaN).  The value is the rational num/den.  Any other text is NaN
\* (the model's tokens hold no exponent, hex or Infinity form).
Number(tok) == NumberTrimmed(trim(tok))

---------------------------------------------------------------------------
(* Release-name parser *)

\* the month names of the table, in its spellings
MonthWord ==
  [sausis |-> <<"s", "a", "u", "s", "i", "s">>,
   vasaris |-> <<"v", "a", "s", "a", "r", "i", "s">>,
   kovas |-> <<"k", "o", "v", "a", "s">>,
   balandis |-> <<"b", "a", "l", "a", "n", "d", "i", "s">>,
   geguzeLt |-> <<"g", "e", "g", "u", "z_caron", "e_dot">>,
   geguze |-> <<"g", "e", "g", "u", "z", "e">>,
   birzelisLt |-> <<"b", "i", "r", "z_caron", "e", "l", "i", "s">>,
   birzelis |-> <<"b", "i", "r", "z", "e", "l", "i", "s">>,
   liepa |-> <<"l", "i", "e", "p", "a">>,
   rugpjutisLt |-> <<"r", "u", "g", "p", "j", "u_macron", "t", "i", "s">>,
   rugpjutis |-> <<"r", "u", "g", "p", "j", "u", "t", "i", "s">>,
   rugsejisLt |-> <<"r", "u", "g", "s", "e_dot", "j", "i", "s">>,
   rugsejis |-> <<"r", "u", "g", "s", "e", "j", "i", "s">>,
   spalis |-> <<"s", "p", "a", "l", "i", "s">>,
   lapkritis |-> <<"l", "a", "p", "k", "r", "i", "t", "i", "s">>,
   gruodis |-> <<"g", "r", "u", "o", "d", "i", "s">>]

LT_MONTH_TO_NUM ==
  << <<MonthWord.sausis, 1>>, <<MonthWord.vasaris, 2>>, <<MonthWord.kovas, 3>>,
     <<MonthWord.balandis, 4>>, <<MonthWord.geguzeLt, 5>>, <<MonthWord.geguze, 5>>,
     <<MonthWord.birzelisLt, 6>>, <<MonthWord.birzelis, 6>>,
     <<MonthWord.liepa, 7>>, <<MonthWord.rugpjutisLt, 8>>, <<MonthWord.rugpjutis, 8>>,
     <<MonthWord.rugsejisLt, 9>>, <<MonthWord.rugsejis, 9>>, <<MonthWord.spalis, 10>>,
     <<MonthWord.lapkritis, 11>>, <<MonthWord.gruodis, 12>> >>

\* Own keys of the month table
MonthNames == {LT_MONTH_TO_NUM[i][1] : i \in 1..Len(LT_MONTH_TO_NUM)}

\* the tokens of the release names of the inputs
Word ==
  [constructor |-> <<"c", "o", "n", "s", "t", "r", "u", "c", "t", "o", "r">>,
   proto |-> <<"_", "_", "p", "r", "o", "t", "o", "_", "_">>,
   y2024 |-> <<"2", "0", "2", "4">>,
   y2025 |-> <<"2", "0", "2", "5">>,
   Sausis |-> <<"S", "a", "u", "s", "i", "s">>,
   y2000 |-> <<"2", "0", "0", "0">>,
   y2100 |-> <<"2", "1", "0", "0">>,
   y1999 |-> <<"1", "9", "9", "9">>,
   y2101 |-> <<"2", "1", "0", "1">>,
   y2024_5 |-> <<"2", "0", "2", "4", ".", "5">>,
   GEGUZE_LT |-> <<"G", "E", "G", "U", "Z_CARON", "E_DOT">>,
   Constructor |-> <<"C", "o", "n", "s", "t", "r", "u", "c", "t", "o", "r">>,
   extra |-> <<"e", "x", "t", "r", "a">>]

\* LT_MONTH_TO_NUM is an object literal: a key that is not an own property is
\* looked up on Object.prototype.  These are the inherited keys a lower-cased
\* string can equal; their values are objects (truthy, not numbers).
ObjectPrototypeKeys == {Word.constructor, Word.proto}

\* LT_MONTH_TO_NUM[k]
MonthLookup(k) ==
  IF k \in MonthNames
  THEN [kind |-> "number",
        val |-> LT_MONTH_TO_NUM[CHOOSE i \in 1..Len(LT_MONTH_TO_NUM) :
                                   LT_MONTH_TO_NUM[i][1] = k][2]]
  ELSE IF k \in ObjectPrototypeKeys THEN [kind |-> "object", val |-> 0]
  ELSE [kind |-> "undefined", val |-> 0]

MinYear == 2000
MaxYear == 2100

ParseNull == [ok |-> FALSE, year |-> NaN, month |-> [kind |-> "undefined", val |-> 0]]

\* year < 2000 || year > 2100, on the rational num/den
YearOutOfRange(year) ==
  year.num < MinYear * year.den \/ year.num > MaxYear * year.den

\* LT_MONTH_TO_NUM[monthNameRaw] ?? LT_MONTH_TO_NUM[parts[1].toLowerCase()]
MonthOf(first, second) == IF first.kind # "undefined" THEN first ELSE second

ParseMonth(year, month) ==
  IF month.kind = "undefined" THEN ParseNull
  ELSE [ok |-> TRUE, year |-> year, month |-> month]

ParseYear(year, parts) ==
  IF ~year.finite \/ YearOutOfRange(year) THEN ParseNull
  ELSE ParseMonth(year, MonthOf(MonthLookup(toLowerCase(JoinSp(Tail(parts)))),
                                MonthLookup(toLowerCase(parts[2]))))

ParseParts(parts) ==
  IF Len(parts) < 2 THEN ParseNull ELSE ParseYear(Number(parts[1]), parts)

parseLtFixVersion(name) == ParseParts(SplitWs(trim(name)))

\* p.year * 100 + p.month: a number (the rational num/den) when month is a
\* number; with a month that is an object, + concatenates and gives a string.
monthKey(p) ==
  IF p.month.kind = "number"
  THEN [kind |-> "number", num |-> p.year.num * 100 + p.month.val * p.year.den,
        den |-> p.year.den]
  ELSE [kind |-> "string", num |-> 0, den |-> 1]

---------------------------------------------------------------------------
(* Configuration *)

EnvUnset == "#unset"

EnvValues == {EnvUnset, "", "set"}

\* !v of mustGetEnv
EnvFalsy(v) == v \in {EnvUnset, ""}

\* The mutant of mustGetEnvThrows: only an unset variable counts as missing.
mustGetEnvThrowsUnsetOnly(e, name) == e[name] = EnvUnset

\* mustGetEnv(name) throws
mustGetEnvThrows(e, name) == EnvFalsy(e[name])

ListEnvNames == <<"JIRA_BASE_URL", "JIRA_EMAIL", "JIRA_API_TOKEN">>
DetailEnvNames == <<"JIRA_BASE_URL", "JIRA_EMAIL", "JIRA_API_TOKEN">>
AttachmentEnvNames == <<"JIRA_EMAIL", "JIRA_API_TOKEN">>

AnyMissing(e, names) == \E i \in 1..Len(names) : mustGetEnvThrows(e, names[i])

\* the variable whose mustGetEnv call throws: the first missing one, in call order
FirstMissing(e, names) ==
  names[CHOOSE i \in 1..Len(names) :
          /\ mustGetEnvThrows(e, names[i])
          /\ \A j \in 1..(i - 1) : ~mustGetEnvThrows(e, names[j])]

NoResponse == [status |-> 0, body |-> [none |-> TRUE]]

\* The mutant of ServerError: the exception escapes the handler and no
\* response is produced.
ServerErrorUncaught(message) == NoResponse

\* the catch block of each handler
ServerError(message) ==
  [status |-> 500, body |-> [error |-> "Server error", details |-> message]]

MissingEnvMessage(name) == <<"Missing env var: ", name>>

\* The mutant of JiraRequestFailed: the upstream status is dropped.
JiraRequestFailedNoStatus(status, text) ==
  [status |-> 502, body |-> [error |-> "Jira request failed", status |-> 0,
                             details |-> text]]

\* the !r.ok branch of the list and detail handlers
JiraRequestFailed(status, text) ==
  [status |-> 502, body |-> [error |-> "Jira request failed", status |-> status,
                             details |-> text]]

NoRequest == [kind |-> "none"]

NoAnswer == [n |-> 0, kind |-> "none"]

---------------------------------------------------------------------------
(* Grouping engine *)

\* !name, for a name that is a string or undefined
NameFalsy(name) == name = Undefined \/ name = S0

\* fv?.released ?? null
ReleasedOrNull(fv) == IF fv.released = "undefined" THEN "null" ELSE fv.released

\* raw.fields?.summary ?? ""
SummaryOf(raw) == IF raw.summary = "undefined" THEN "" ELSE raw.summary

\* TrimmedIssue
TrimIssue(raw, baseUrl) ==
  [key |-> raw.key, summary |-> SummaryOf(raw), url |-> <<baseUrl, "/browse/", raw.key>>]

\* The mutant of SeenHas: the per-record seen-set is never consulted.
SeenHasNever(seen, name) == FALSE

\* seen.has(name)
SeenHas(seen, name) == name \in seen

MapHas(groupsMap, name) ==
  \E i \in 1..Len(groupsMap) : groupsMap[i].fixVersion = name

\* The mutant of MapEnsure: a later entry overwrites the group's released.
MapEnsureLastWins(groupsMap, name, fv) ==
  IF MapHas(groupsMap, name)
  THEN [i \in 1..Len(groupsMap) |->
          IF groupsMap[i].fixVersion = name
          THEN [groupsMap[i] EXCEPT !.released = ReleasedOrNull(fv)]
          ELSE groupsMap[i]]
  ELSE Append(groupsMap, [fixVersion |-> name, released |-> ReleasedOrNull(fv),
                          issues |-> <<>>])

\* if (!groupsMap.has(name)) groupsMap.set(name, {...})
MapEnsure(groupsMap, name, fv) ==
  IF MapHas(groupsMap, name) THEN groupsMap
  ELSE Append(groupsMap, [fixVersion |-> name, released |-> ReleasedOrNull(fv),
                          issues |-> <<>>])

\* The mutant of MapPush: the entry goes in front of the group's entries.
MapPushInFront(groupsMap, name, issue) ==
  [i \in 1..Len(groupsMap) |->
     IF groupsMap[i].fixVersion = name
     THEN [groupsMap[i] EXCEPT !.issues = <<issue>> \o @]
     ELSE groupsMap[i]]

\* groupsMap.get(name)!.issues.push(issue)
MapPush(groupsMap, name, issue) ==
  [i \in 1..Len(groupsMap) |->
     IF groupsMap[i].fixVersion = name
     THEN [groupsMap[i] EXCEPT !.issues = Append(@, issue)]
     ELSE groupsMap[i]]

\* for (const fv of fixVersions) { ... }
RECURSIVE AddFixVersions(_, _, _, _)
AddFixVersions(groupsMap, issue, fixVersions, seen) ==
  IF fixVersions = <<>> THEN groupsMap
  ELSE LET fv == Head(fixVersions)
           name == fv.name
       IN IF NameFalsy(name) \/ SeenHas(seen, name)
          THEN AddFixVersions(groupsMap, issue, Tail(fixVersions), seen)
          ELSE AddFixVersions(MapPush(MapEnsure(groupsMap, name, fv), name, issue),
                              issue, Tail(fixVersions), seen \cup {name})

\* for (const raw of allIssuesRaw) { ... }
RECURSIVE GroupByFixVersion(_, _, _)
GroupByFixVersion(groupsMap, all, baseUrl) ==
  IF all = <<>> THEN groupsMap
  ELSE GroupByFixVersion(
         AddFixVersions(groupsMap, TrimIssue(Head(all), baseUrl),
                        Head(all).fixVersions, {}),
         Tail(all), baseUrl)

---------------------------------------------------------------------------
(* Release names of the inputs *)


\* the release names of the inputs
ReleaseName ==
  [n2024_sausis |-> Word.y2024 \o SP \o MonthWord.sausis,
   n2024_Sausis |-> Word.y2024 \o SP \o Word.Sausis,
   n2025_sausis |-> Word.y2025 \o SP \o MonthWord.sausis,
   n2024_constructor |-> Word.y2024 \o SP \o Word.constructor,
   abc |-> <<"a", "b", "c">>,
   Backlog |-> <<"B", "a", "c", "k", "l", "o", "g">>]

\* the release names of the model's inputs
KnownNames ==
  {ReleaseName.n2024_sausis, ReleaseName.n2024_Sausis, ReleaseName.n2025_sausis,
   ReleaseName.n2024_constructor, ReleaseName.abc, ReleaseName.Backlog}

---------------------------------------------------------------------------
(* Group ordering *)

\* Primary collation order of the model's characters (CLDR root collation:
\* white space, punctuation, symbols, digits, letters).
CollationOrder ==
  <<"\t", " ", "_", "-", ":", ".", "[", "]", "+",
    "0", "1", "2", "3", "4", "5", "6", "7", "8", "9",
    "a", "b", "c", "d", "e", "f", "g", "h", "i", "j", "k", "l", "m",
    "n", "o", "p", "q", "r", "s", "t", "u", "v", "w", "x", "y", "z">>

BaseOfLower(l) ==
  IF l = "e_dot" THEN "e" ELSE IF l = "z_caron" THEN "z"
  ELSE IF l = "u_macron" THEN "u" ELSE l

\* the weight of c at a level: 1 the base letter, 2 the accent, 3 the case
Weight(level, c) ==
  IF level = 1 THEN CHOOSE i \in 1..Len(CollationOrder) : CollationOrder[i] = BaseOfLower(LowerChar(c))
  ELSE IF level = 2 THEN (IF LowerChar(c) \in {"e_dot", "z_caron", "u_macron"} THEN 1 ELSE 0)
  ELSE (IF LowerChar(c) # c THEN 1 ELSE 0)

\* sign of the lexicographic comparison of two sequences of numbers
RECURSIVE LexCmp(_, _)
LexCmp(u, v) ==
  IF u = <<>> /\ v = <<>> THEN 0
  ELSE IF u = <<>> THEN -1
  ELSE IF v = <<>> THEN 1
  ELSE IF Head(u) < Head(v) THEN -1
  ELSE IF Head(u) > Head(v) THEN 1
  ELSE LexCmp(Tail(u), Tail(v))

\* the first non-zero of three signs
FirstNonZero(p, s2, t) == IF p # 0 THEN p ELSE IF s2 # 0 THEN s2 ELSE t

\* a.localeCompare(b): primary weights decide, then accents, then case
localeCompare(a, b) ==
  FirstNonZero(LexCmp([i \in 1..Len(a) |-> Weight(1, a[i])],
                      [i \in 1..Len(b) |-> Weight(1, b[i])]),
               LexCmp([i \in 1..Len(a) |-> Weight(2, a[i])],
                      [i \in 1..Len(b) |-> Weight(2, b[i])]),
               LexCmp([i \in 1..Len(a) |-> Weight(3, a[i])],
                      [i \in 1..Len(b) |-> Weight(3, b[i])]))

CmpOf(n) == [nan |-> FALSE, sign |-> IF n < 0 THEN -1 ELSE IF n > 0 THEN 1 ELSE 0]

\* monthKey(pb) - monthKey(pa): NaN unless both keys are numbers
KeyDifference(kb, ka) ==
  IF kb.kind = "number" /\ ka.kind = "number"
  THEN CmpOf(kb.num * ka.den - ka.num * kb.den)
  ELSE [nan |-> TRUE, sign |-> 0]

\* the comparator's body, with pa and pb the two parse results
CompareParsed(pa, pb, na, nb) ==
  IF ~pa.ok /\ ~pb.ok THEN CmpOf(localeCompare(na, nb))
  ELSE IF ~pa.ok THEN CmpOf(1)
  ELSE IF ~pb.ok THEN CmpOf(-1)
  ELSE KeyDifference(monthKey(pb), monthKey(pa))

\* the comparator handed to sort, on the two groups' fixVersion
compareFixVersions(na, nb) ==
  CompareParsed(parseLtFixVersion(na), parseLtFixVersion(nb), na, nb)

\* compareFixVersions tabulated over the names of the inputs
CompareTable ==
  [na \in KnownNames |-> [nb \in KnownNames |-> compareFixVersions(na, nb)]]

\* the comparator handed to sort
compareGroups(a, b) ==
  IF a.fixVersion \in KnownNames /\ b.fixVersion \in KnownNames
  THEN CompareTable[a.fixVersion][b.fixVersion]
  ELSE compareFixVersions(a.fixVersion, b.fixVersion)

SortCompareOf(v) == IF v.nan THEN 0 ELSE v.sign

\* SortCompare of Array.prototype.sort: a NaN result counts as +0
SortCompare(a, b) == SortCompareOf(compareGroups(a, b))

\* ECMAScript's "consistent comparator" for the values of S
ConsistentComparator(S) ==
  LET c == [a \in S |-> [b \in S |-> SortCompare(a, b)]]
  IN /\ \A a \in S : c[a][a] = 0
     /\ \A a, b \in S : c[a][b] = 0 => c[b][a] = 0
     /\ \A a, b, d \in S :
          /\ c[a][b] = 0 /\ c[b][d] = 0 => c[a][d] = 0
          /\ c[a][b] < 0 /\ c[b][d] < 0 => c[a][d] < 0
          /\ c[a][b] > 0 /\ c[b][d] > 0 => c[a][d] > 0

\* x placed after every element of the sorted list that does not sort after it
RECURSIVE InsertSorted(_, _)
InsertSorted(sorted, x) ==
  IF sorted = <<>> THEN <<x>>
  ELSE IF SortCompare(x, Head(sorted)) < 0 THEN <<x>> \o sorted
  ELSE <<Head(sorted)>> \o InsertSorted(Tail(sorted), x)

\* the stable sort of a list under a consistent comparator
RECURSIVE StableSort(_)
StableSort(list) ==
  IF list = <<>> THEN <<>>
  ELSE InsertSorted(StableSort(SubSeq(list, 1, Len(list) - 1)), list[Len(list)])

SeqPermutations(list) ==
  {[i \in 1..Len(list) |-> list[f[i]]] :
     f \in {g \in [1..Len(list) -> 1..Len(list)] :
              \A i, j \in 1..Len(list) : i # j => g[i] # g[j]}}

\* Array.prototype.sort(comparefn): the stable sorted order when comparefn is
\* a consistent comparator for the elements; otherwise the order is
\* implementation-defined and any permutation may result.
SortOutcomes(list) ==
  IF ConsistentComparator({list[i] : i \in 1..Len(list)}) THEN {StableSort(list)}
  ELSE SeqPermutations(list)

---------------------------------------------------------------------------
(* List operation: GET /api/issues *)

MaxPages == 30

\* The mutant of LoopGuard: the bound is off by one.
LoopGuardInclusive(s) == s <= MaxPages

\* while (safety < 30)
LoopGuard(s) == s < MaxPages

NullToken == "#null"
NoCursor == "#none"

\* !nextPageToken is false
TokenTruthy(token) == token \notin {NullToken, ""}

\* The mutant of SearchRequest: the cursor is never sent.
SearchRequestNoCursor(token) == [kind |-> "search", cursor |-> NoCursor]

\* the request body: if (nextPageToken) body.nextPageToken = nextPageToken
SearchRequest(token) ==
  [kind |-> "search", cursor |-> IF TokenTruthy(token) THEN token ELSE NoCursor]

\* data.issues ?? []
IssuesOrEmpty(data) == IF data.hasIssues THEN data.issues ELSE <<>>

\* data.nextPageToken ?? null
TokenOrNull(data) == data.nextPageToken

\* data.isLast ?? true
IsLastOrTrue(data) == data.isLast \in {"absent", "true"}

\* The mutant of ShouldBreak: the cursor is not looked at.
ShouldBreakIsLastOnly(data) == IsLastOrTrue(data)

\* if (isLast || !nextPageToken) break
ShouldBreak(data) == IsLastOrTrue(data) \/ ~TokenTruthy(TokenOrNull(data))

\* The mutant of PushAll: the page goes in front of the accumulator.
PushAllInFront(acc, issues) == issues \o acc

\* allIssuesRaw.push(...issues)
PushAll(acc, issues) == acc \o issues

\* The success responses the handler can build from the accumulator
ListSuccess(acc, baseUrl) ==
  {[status |-> 200, body |-> [total |-> Len(acc), groups |-> groups]] :
     groups \in SortOutcomes(GroupByFixVersion(<<>>, acc, baseUrl))}

SeqsUpTo(S, n) == UNION {[1..k -> S] : k \in 0..n}

\* The 200 answers of the search endpoint with at most `room` records.
PageData(pool, room, tokens, lasts) ==
  {[issues |-> is, hasIssues |-> h, nextPageToken |-> t, isLast |-> l] :
     is \in SeqsUpTo(pool, room), h \in BOOLEAN, t \in tokens, l \in lasts}

FailStatuses == {401, 500}
FailBodies == {"", "upstream says no"}
ThrowMessages == {"fetch failed", "Unexpected token < in JSON"}

\* The handler up to its first await: the three mustGetEnv calls, then the
\* first pass of the loop up to fetch.
ListGET ==
  /\ op = "list" /\ pc = "start"
  /\ IF AnyMissing(env, ListEnvNames)
     THEN /\ response' = ServerError(MissingEnvMessage(FirstMissing(env, ListEnvNames)))
          /\ pc' = "done"
          /\ UNCHANGED <<safety, nextPageToken, allIssuesRaw, inflight, upstream>>
     ELSE /\ LoopGuard(0)
          /\ safety' = 1
          /\ allIssuesRaw' = <<>>
          /\ nextPageToken' = NullToken
          /\ inflight' = SearchRequest(NullToken)
          /\ upstream' = upstream + 1
          /\ pc' = "await"
          /\ UNCHANGED response
  /\ UNCHANGED <<page, op, env, input, received, pages, parsed>>

\* fetch resolves with r.ok: the rest of the loop body, then either the next
\* pass up to its fetch, or grouping, sorting and the 200 response.
ListFetchOk(pool, maxIssues, tokens, lasts, pageCap) ==
  /\ op = "list" /\ pc = "await" /\ inflight.kind = "search"
  /\ \E data \in PageData(pool, maxIssues - Len(allIssuesRaw), tokens, lasts) :
       /\ safety >= pageCap => ShouldBreak(data)
       /\ data.hasIssues \/ data.issues = <<>>
       /\ LET acc == PushAll(allIssuesRaw, IssuesOrEmpty(data))
          IN /\ allIssuesRaw' = acc
             /\ nextPageToken' = TokenOrNull(data)
             /\ received' = [n |-> received.n + 1, kind |-> "ok",
                             nextPageToken |-> data.nextPageToken,
                             isLast |-> data.isLast]
             /\ pages' = IF IssuesOrEmpty(data) = <<>> THEN pages
                         ELSE Append(pages, IssuesOrEmpty(data))
             /\ IF ~ShouldBreak(data) /\ LoopGuard(safety)
                THEN /\ safety' = safety + 1
                     /\ inflight' = SearchRequest(TokenOrNull(data))
                     /\ upstream' = upstream + 1
                     /\ UNCHANGED <<pc, response>>
                ELSE /\ \E r \in ListSuccess(acc, env["JIRA_BASE_URL"]) : response' = r
                     /\ pc' = "done"
                     /\ inflight' = NoRequest
                     /\ UNCHANGED <<safety, upstream>>
  /\ UNCHANGED <<page, op, env, input, parsed>>

\* fetch resolves with !r.ok
ListFetchNotOk ==
  /\ op = "list" /\ pc = "await" /\ inflight.kind = "search"
  /\ \E status \in FailStatuses, text \in FailBodies :
       /\ response' = JiraRequestFailed(status, text)
       /\ received' = [n |-> received.n + 1, kind |-> "notok",
                       status |-> status, text |-> text]
  /\ pc' = "done"
  /\ inflight' = NoRequest
  /\ UNCHANGED <<page, op, env, input, safety, nextPageToken, allIssuesRaw, upstream,
                 pages, parsed>>

\* fetch rejects, or r.json() throws on a body that is not JSON: the catch block
ListFetchThrows ==
  /\ op = "list" /\ pc = "await" /\ inflight.kind = "search"
  /\ \E m \in ThrowMessages : response' = ServerError(m)
  /\ received' = [n |-> received.n + 1, kind |-> "throw"]
  /\ pc' = "done"
  /\ inflight' = NoRequest
  /\ UNCHANGED <<page, op, env, input, safety, nextPageToken, allIssuesRaw, upstream,
                 pages, parsed>>

---------------------------------------------------------------------------
(* Page: the detail modal of page.tsx *)

\* null, for the string states of the page
PageNull == <<"#null">>

\* useState: no issue selected, no details, no error, not loading; no call
\* of apiJson outstanding
PageIdle ==
  [selectedKey |-> PageNull, details |-> PageNull, detailsError |-> PageNull,
   detailsLoading |-> FALSE, calls |-> {}, made |-> 0]

\* most openIssue calls of one run of the page
MaxCalls == 3

\* openIssue(key) up to its await: the four setters, then the call of apiJson
openIssue(key) ==
  /\ op = "page"
  /\ page.made < MaxCalls
  /\ page' = [page EXCEPT !.selectedKey = trim(key),
                          !.details = PageNull,
                          !.detailsError = PageNull,
                          !.detailsLoading = TRUE,
                          !.calls = @ \cup {[id |-> page.made + 1, key |-> trim(key)]},
                          !.made = @ + 1]
  /\ UNCHANGED <<op, pc, env, input, safety, nextPageToken, allIssuesRaw, inflight,
                 upstream, received, pages, parsed, response>>

\* closeModal, reached from the modal and from the Escape key, both of which
\* exist only while an issue is selected
closeModal ==
  /\ op = "page"
  /\ page.selectedKey # PageNull
  /\ page' = [page EXCEPT !.selectedKey = PageNull,
                          !.details = PageNull,
                          !.detailsError = PageNull,
                          !.detailsLoading = FALSE]
  /\ UNCHANGED <<op, pc, env, input, safety, nextPageToken, allIssuesRaw, inflight,
                 upstream, received, pages, parsed, response>>

\* openIssue after its await: apiJson has resolved for one of the outstanding
\* calls, with the detail of the key asked for or with an error
openIssueResumes ==
  /\ op = "page"
  /\ \E call \in page.calls, ok \in BOOLEAN :
       page' = IF ok
               THEN [page EXCEPT !.details = call.key,
                                 !.detailsLoading = FALSE,
                                 !.calls = @ \ {call}]
               ELSE [page EXCEPT !.detailsError = <<"Request failed">>,
                                 !.detailsLoading = FALSE,
                                 !.calls = @ \ {call}]
  /\ UNCHANGED <<op, pc, env, input, safety, nextPageToken, allIssuesRaw, inflight,
                 upstream, received, pages, parsed, response>>

---------------------------------------------------------------------------
(* Inputs of the list operation *)

Fv(name, released) == [name |-> name, released |-> released]

Issue(key, summary, fixVersions) ==
  [key |-> key, summary |-> summary, fixVersions |-> fixVersions]

\* Records of the paging specification
SimplePool ==
  { Issue("IMOSHELP-1", "one", <<Fv(ReleaseName.n2024_sausis, "true")>>),
    Issue("IMOSHELP-2", "undefined", <<Fv(ReleaseName.n2025_sausis, "undefined")>>) }

\* fixVersions lists of the grouping specification
FvLists ==
  { <<>>,
    <<Fv(ReleaseName.n2024_sausis, "true")>>,
    <<Fv(ReleaseName.n2024_sausis, "false"), Fv(ReleaseName.n2024_sausis, "true")>>,
    <<Fv(ReleaseName.n2024_Sausis, "undefined"), Fv(ReleaseName.n2024_sausis, "true")>>,
    <<Fv(ReleaseName.n2025_sausis, "false")>>,
    <<Fv(ReleaseName.Backlog, "undefined"), Fv(ReleaseName.abc, "undefined")>>,
    <<Fv(ReleaseName.abc, "true"), Fv(ReleaseName.n2025_sausis, "true")>>,
    <<Fv(ReleaseName.n2024_sausis, "true"), Fv(ReleaseName.n2024_constructor, "undefined")>>,
    <<Fv(S0, "true"), Fv(Undefined, "true")>>,
    <<Fv(Undefined, "false"), Fv(ReleaseName.n2024_sausis, "false")>> }

RichPool ==
  {Issue("IMOSHELP-1", "one", f) : f \in FvLists}
  \cup {Issue("IMOSHELP-2", "undefined", f) : f \in {g \in FvLists : Len(g) <= 1}}


\* most records one list request receives, paging specification
MaxIssues == 3
\* most records one list request receives, grouping specification
MaxGroupIssues == 2
\* the page by which the server of the grouping specification ends the search
GroupPageCap == 2

EnvAllSet == [n \in {"JIRA_BASE_URL", "JIRA_EMAIL", "JIRA_API_TOKEN"} |-> "set"]

InitWith(ops, envs, inputs) ==
  /\ op \in ops
  /\ pc = "start"
  /\ env \in envs
  /\ input \in inputs
  /\ safety = 0
  /\ nextPageToken = NullToken
  /\ allIssuesRaw = <<>>
  /\ inflight = NoRequest
  /\ upstream = 0
  /\ received = NoAnswer
  /\ pages = <<>>
  /\ parsed = ParseNull
  /\ page = PageIdle
  /\ response = NoResponse

---------------------------------------------------------------------------
(* Document-model flattener: adfToPlainText *)

\* the literal texts of the flattener and of the resolver
Token ==
  [Link |-> <<"[", "L", "i", "n", "k", "]">>,
   LinkOpen |-> <<"[", "L", "i", "n", "k", ":", " ">>,
   Close |-> <<"]">>,
   AttachmentId |-> <<"[", "A", "T", "T", "A", "C", "H", "M", "E", "N", "T", "_", "I", "D", ":">>,
   ATTACHMENT |-> <<"[", "A", "T", "T", "A", "C", "H", "M", "E", "N", "T", "]">>,
   Attachment |-> <<"[", "A", "t", "t", "a", "c", "h", "m", "e", "n", "t", "]">>,
   Image |-> <<"[", "I", "m", "a", "g", "e", ":", " ">>,
   File |-> <<"[", "F", "i", "l", "e", ":", " ">>,
   file |-> <<"f", "i", "l", "e">>,
   imageSlash |-> <<"i", "m", "a", "g", "e", "/">>,
   NL |-> <<"\n">>]

\* a string that is neither undefined nor empty
StrTruthy(x) == x # Undefined /\ x # S0

\* x ?? ""
OrEmpty(x) == IF x = Undefined THEN S0 ELSE x

NullNode == [type |-> "#null"]
StringNode(x) == [type |-> "#string", text |-> x]
TextNode(text, marks) == [type |-> "text", text |-> text, marks |-> marks]
LinkMark(href) == [type |-> "link", href |-> href]
OtherMark(type) == [type |-> type, href |-> Undefined]
HardBreak == [type |-> "hardBreak"]
Card(type, url) == [type |-> type, url |-> url]
Media(id) == [type |-> "media", id |-> id]
Node(type, content) == [type |-> type, content |-> content]

\* marks.find(m => m?.type === "link")?.attrs?.href
LinkHref(marks) ==
  IF \E i \in 1..Len(marks) : marks[i].type = "link"
  THEN marks[CHOOSE i \in 1..Len(marks) :
               marks[i].type = "link" /\ \A j \in 1..(i - 1) : marks[j].type # "link"].href
  ELSE Undefined

\* The mutant of LinkedText: the text is compared with href as it stands.
LinkedTextExact(text, href) ==
  IF StrTruthy(text) /\ trim(text) # S0 /\ text # href
  THEN text \o <<" ", "(">> \o href \o <<")">>
  ELSE href

\* the text node with link href (truthy) and literal text
LinkedText(text, href) ==
  IF StrTruthy(text) /\ trim(text) # S0 /\ trim(text) # href
  THEN text \o <<" ", "(">> \o href \o <<")">>
  ELSE href

\* the text-node branch
TextOut(text, href) == IF StrTruthy(href) THEN LinkedText(text, href) ELSE text

\* content ? content + "\n" : "[ATTACHMENT]\n"
MediaWrapperOut(content) ==
  IF content # S0 THEN content \o Token.NL ELSE Token.ATTACHMENT \o Token.NL

\* the tail of the function: block-ish nodes get a line break
ContainerOut(type, content) ==
  IF type \in {"doc", "paragraph", "heading", "blockquote", "listItem", "bulletList",
              "orderedList", "codeBlock", "panel", "rule", "table", "tableRow",
              "tableCell"}
  THEN content \o Token.NL ELSE content

RECURSIVE adfToPlainText(_)
RECURSIVE adfArray(_)

\* node.map(adfToPlainText).join("")
adfArray(nodes) ==
  IF nodes = <<>> THEN S0 ELSE adfToPlainText(Head(nodes)) \o adfArray(Tail(nodes))

adfToPlainText(node) ==
  IF node.type = "#null" THEN S0
  ELSE IF node.type = "#string" THEN node.text
  ELSE IF node.type = "text" THEN TextOut(OrEmpty(node.text), LinkHref(node.marks))
  ELSE IF node.type = "hardBreak" THEN Token.NL
  ELSE IF node.type \in {"inlineCard", "blockCard", "embedCard"}
       THEN IF StrTruthy(node.url) THEN Token.LinkOpen \o node.url \o Token.Close \o Token.NL
            ELSE Token.Link \o Token.NL
  ELSE IF node.type = "media"
       THEN IF StrTruthy(node.id) THEN Token.AttachmentId \o node.id \o Token.Close
            ELSE Token.ATTACHMENT
  ELSE IF node.type \in {"mediaSingle", "mediaGroup"}
       THEN MediaWrapperOut(adfArray(node.content))
  ELSE ContainerOut(node.type, adfArray(node.content))

---------------------------------------------------------------------------
(* Attachment resolver: enrichPlaceholders *)

Attachment(id, filename, mimeType) ==
  [id |-> id, filename |-> filename, mimeType |-> mimeType]

StartsWith(x, prefix) ==
  Len(x) >= Len(prefix) /\ SubSeq(x, 1, Len(prefix)) = prefix

\* attachmentById.get(id): the last attachment of the list with that id,
\* attachments with a falsy id never entering the map
HasAttachment(attachments, id) ==
  \E i \in 1..Len(attachments) : StrTruthy(attachments[i].id) /\ attachments[i].id = id

GetAttachment(attachments, id) ==
  attachments[CHOOSE i \in 1..Len(attachments) :
                /\ attachments[i].id = id
                /\ \A j \in (i + 1)..Len(attachments) : attachments[j].id # id]

placeholderLabelForAttachment(a) ==
  (IF StartsWith(toLowerCase(OrEmpty(a.mimeType)), Token.imageSlash)
   THEN Token.Image ELSE Token.File)
  \o (IF a.filename = Undefined THEN Token.file ELSE a.filename)
  \o Token.Close

\* the callback of the first replace
LabelForId(attachments, id) ==
  IF ~HasAttachment(attachments, id) THEN Token.Attachment
  ELSE placeholderLabelForAttachment(GetAttachment(attachments, id))

\* index of the first "]" of x at or after position from, 0 when there is none
CloseIndex(x, from) ==
  IF \E j \in from..Len(x) : x[j] = "]"
  THEN CHOOSE j \in from..Len(x) : x[j] = "]" /\ \A k \in from..(j - 1) : x[k] # "]"
  ELSE 0

\* /\[ATTACHMENT_ID:([^\]]+)\]/ matched at the start of x: the index of the
\* closing bracket, 0 when x does not start with a match
IdMatchEnd(x) ==
  IF StartsWith(x, Token.AttachmentId) /\ CloseIndex(x, Len(Token.AttachmentId) + 1) > Len(Token.AttachmentId) + 1
  THEN CloseIndex(x, Len(Token.AttachmentId) + 1)
  ELSE 0

\* text.replace(/\[ATTACHMENT_ID:([^\]]+)\]/g, callback)
RECURSIVE ReplaceIds(_, _)
ReplaceIds(x, attachments) ==
  IF x = <<>> THEN S0
  ELSE IF IdMatchEnd(x) > 0
  THEN LabelForId(attachments, SubSeq(x, Len(Token.AttachmentId) + 1, IdMatchEnd(x) - 1))
       \o ReplaceIds(SubSeq(x, IdMatchEnd(x) + 1, Len(x)), attachments)
  ELSE <<Head(x)>> \o ReplaceIds(Tail(x), attachments)

\* .replace(/\[ATTACHMENT\]/g, "[Attachment]")
RECURSIVE ReplaceBare(_)
ReplaceBare(x) ==
  IF x = <<>> THEN S0
  ELSE IF StartsWith(x, Token.ATTACHMENT)
  THEN Token.Attachment \o ReplaceBare(SubSeq(x, Len(Token.ATTACHMENT) + 1, Len(x)))
  ELSE <<Head(x)>> \o ReplaceBare(Tail(x))

enrichPlaceholders(text, attachments) ==
  IF text = S0 THEN S0 ELSE ReplaceBare(ReplaceIds(text, attachments))

---------------------------------------------------------------------------
(* Detail operation: GET /api/issue/[key] *)

\* encodeURIComponent, one character: the unreserved marks, letters and
\* digits stay, the model's other characters are percent-encoded
RECURSIVE encodeURIComponent(_)
encodeURIComponent(x) ==
  IF x = <<>> THEN S0
  ELSE (IF Head(x) = " " THEN <<"%", "2", "0">>
        ELSE IF Head(x) = "/" THEN <<"%", "2", "F">>
        ELSE <<Head(x)>>) \o encodeURIComponent(Tail(x))

\* x ?? null, for a field held as a string
OrNull(x) == IF x = "undefined" THEN "null" ELSE x

\* one element of the comments of the detail view
CommentView(c, attachments) ==
  [id |-> c.id, author |-> IF c.author = "undefined" THEN "Unknown" ELSE c.author,
   created |-> OrNull(c.created),
   bodyText |-> enrichPlaceholders(trim(adfToPlainText(c.body)), attachments)]

\* one element of the attachments of the detail view
AttachmentView(a) ==
  [id |-> a.id, filename |-> a.filename,
   mimeType |-> IF a.mimeType = Undefined THEN <<"#null">> ELSE a.mimeType,
   size |-> "null", contentUrl |-> <<"content", a.id>>]

\* the 200 response of the detail handler
DetailView(data, baseUrl) ==
  [status |-> 200,
   body |-> [key |-> data.key,
             url |-> <<baseUrl, "/browse/", data.key>>,
             summary |-> SummaryOf(data),
             status |-> OrNull(data.status),
             assignee |-> OrNull(data.assignee),
             priority |-> OrNull(data.priority),
             issueType |-> OrNull(data.issuetype),
             created |-> OrNull(data.created),
             fixVersions |-> [i \in 1..Len(data.fixVersions) |-> data.fixVersions[i].name],
             descriptionText |->
               enrichPlaceholders(trim(adfToPlainText(data.description)), data.attachment),
             comments |-> [i \in 1..Len(data.comments) |->
                             CommentView(data.comments[i], data.attachment)],
             attachments |-> [i \in 1..Len(data.attachment) |->
                                AttachmentView(data.attachment[i])]]]

\* The answers of the issue endpoint
IssueData(docs, attachmentLists, commentLists) ==
  {[key |-> "IMOSHELP-1", summary |-> m, status |-> m, assignee |-> m,
    priority |-> m, issuetype |-> m, created |-> m,
    fixVersions |-> <<Fv(ReleaseName.n2024_sausis, "true")>>,
    description |-> d, comments |-> cs, attachment |-> as] :
     m \in {"undefined", "set"}, d \in docs, cs \in commentLists, as \in attachmentLists}

\* The handler up to its await: the key, the three mustGetEnv calls, fetch.
DetailGET ==
  /\ op = "detail" /\ pc = "start"
  /\ IF AnyMissing(env, DetailEnvNames)
     THEN /\ response' = ServerError(MissingEnvMessage(FirstMissing(env, DetailEnvNames)))
          /\ pc' = "done"
          /\ UNCHANGED <<inflight, upstream>>
     ELSE /\ inflight' = [kind |-> "issue",
                          path |-> encodeURIComponent(trim(input.key))]
          /\ upstream' = upstream + 1
          /\ pc' = "await"
          /\ UNCHANGED response
  /\ UNCHANGED <<page, op, env, input, safety, nextPageToken, allIssuesRaw, received,
                 pages, parsed>>

\* fetch resolves with r.ok: the detail view
DetailFetchOk(docs, attachmentLists, commentLists) ==
  /\ op = "detail" /\ pc = "await" /\ inflight.kind = "issue"
  /\ \E data \in IssueData(docs, attachmentLists, commentLists) :
       /\ response' = DetailView(data, env["JIRA_BASE_URL"])
       /\ received' = [n |-> received.n + 1, kind |-> "ok", data |-> data]
  /\ pc' = "done"
  /\ inflight' = NoRequest
  /\ UNCHANGED <<page, op, env, input, safety, nextPageToken, allIssuesRaw, upstream,
                 pages, parsed>>

\* fetch resolves with !r.ok
DetailFetchNotOk ==
  /\ op = "detail" /\ pc = "await" /\ inflight.kind = "issue"
  /\ \E status \in FailStatuses, text \in FailBodies :
       /\ response' = JiraRequestFailed(status, text)
       /\ received' = [n |-> received.n + 1, kind |-> "notok",
                       status |-> status, text |-> text]
  /\ pc' = "done"
  /\ inflight' = NoRequest
  /\ UNCHANGED <<page, op, env, input, safety, nextPageToken, allIssuesRaw, upstream,
                 pages, parsed>>

\* fetch rejects or r.json() throws: the catch block
DetailFetchThrows ==
  /\ op = "detail" /\ pc = "await" /\ inflight.kind = "issue"
  /\ \E m \in ThrowMessages : response' = ServerError(m)
  /\ received' = [n |-> received.n + 1, kind |-> "throw"]
  /\ pc' = "done"
  /\ inflight' = NoRequest
  /\ UNCHANGED <<page, op, env, input, safety, nextPageToken, allIssuesRaw, upstream,
                 pages, parsed>>

---------------------------------------------------------------------------
(* Attachment proxy *)

NullParam == "#null"

\* filename.replaceAll('"', "")
RECURSIVE StripQuotes(_)
StripQuotes(x) ==
  IF x = <<>> THEN S0
  ELSE IF Head(x) = "\"" THEN StripQuotes(Tail(x))
  ELSE <<Head(x)>> \o StripQuotes(Tail(x))

\* The handler up to its await: contentUrl, the two mustGetEnv calls, fetch.
AttachmentGET ==
  /\ op = "attachment" /\ pc = "start"
  /\ IF input.contentUrl \in {NullParam, ""}
     THEN /\ response' = [status |-> 400, body |-> [error |-> "Missing contentUrl"]]
          /\ pc' = "done"
          /\ UNCHANGED <<inflight, upstream>>
     ELSE IF AnyMissing(env, AttachmentEnvNames)
     THEN /\ response' =
               ServerError(MissingEnvMessage(FirstMissing(env, AttachmentEnvNames)))
          /\ pc' = "done"
          /\ UNCHANGED <<inflight, upstream>>
     ELSE /\ inflight' = [kind |-> "content", url |-> input.contentUrl]
          /\ upstream' = upstream + 1
          /\ pc' = "await"
          /\ UNCHANGED response
  /\ UNCHANGED <<page, op, env, input, safety, nextPageToken, allIssuesRaw, received,
                 pages, parsed>>

\* fetch resolves with r.ok: the bytes go back with the two headers
AttachmentFetchOk ==
  /\ op = "attachment" /\ pc = "await" /\ inflight.kind = "content"
  /\ \E contentType \in {"#null", "image/png"} :
       /\ response' =
            [status |-> 200,
             body |-> [bytes |-> inflight.url],
             contentType |-> IF contentType = "#null" THEN "application/octet-stream"
                             ELSE contentType,
             contentDisposition |-> <<"inline; filename=\"">>
                                    \o StripQuotes(IF input.filename = Undefined
                                                   THEN <<"a", "t", "t", "a", "c", "h", "m", "e", "n", "t">>
                                                   ELSE input.filename)
                                    \o <<"\"">>]
       /\ received' = [n |-> received.n + 1, kind |-> "ok", contentType |-> contentType]
  /\ pc' = "done"
  /\ inflight' = NoRequest
  /\ UNCHANGED <<page, op, env, input, safety, nextPageToken, allIssuesRaw, upstream,
                 pages, parsed>>

\* fetch resolves with !r.ok
AttachmentFetchNotOk ==
  /\ op = "attachment" /\ pc = "await" /\ inflight.kind = "content"
  /\ \E status \in FailStatuses, text \in FailBodies :
       /\ response' = [status |-> 502,
                       body |-> [error |-> "Attachment fetch failed",
                                 status |-> status, details |-> text]]
       /\ received' = [n |-> received.n + 1, kind |-> "notok",
                       status |-> status, text |-> text]
  /\ pc' = "done"
  /\ inflight' = NoRequest
  /\ UNCHANGED <<page, op, env, input, safety, nextPageToken, allIssuesRaw, upstream,
                 pages, parsed>>

\* fetch rejects or reading the body throws: the catch block
AttachmentFetchThrows ==
  /\ op = "attachment" /\ pc = "await" /\ inflight.kind = "content"
  /\ \E m \in ThrowMessages : response' = ServerError(m)
  /\ received' = [n |-> received.n + 1, kind |-> "throw"]
  /\ pc' = "done"
  /\ inflight' = NoRequest
  /\ UNCHANGED <<page, op, env, input, safety, nextPageToken, allIssuesRaw, upstream,
                 pages, parsed>>

---------------------------------------------------------------------------
(* Inputs of the detail operation and of the attachment proxy *)

\* the texts, ids, file names and types of the inputs
DetailWord ==
  [hi |-> <<"h", "i">>,
   one |-> <<"1">>,
   two |-> <<"2">>,
   a_png |-> <<"a", ".", "p", "n", "g">>,
   image_png |-> <<"i", "m", "a", "g", "e", "/", "p", "n", "g">>,
   Image_PNG |-> <<"I", "m", "a", "g", "e", "/", "P", "N", "G">>,
   text_plain |-> <<"t", "e", "x", "t", "/", "p", "l", "a", "i", "n">>,
   href |-> <<"h", "t", "t", "p", ":", "/", "/", "x", "/", "y">>,
   Click |-> <<"C", "l", "i", "c", "k", " ", "h", "e", "r", "e">>,
   key |-> <<"I", "M", "O", "S", "H", "E", "L", "P", "-", "1">>,
   idToken2 |-> Token.AttachmentId \o <<"2">> \o Token.Close]

Docs ==
  { NullNode,
    Node("doc", <<Node("paragraph", <<TextNode(DetailWord.hi, <<>>)>>)>>),
    Node("doc", <<Node("paragraph", <<TextNode(DetailWord.hi, <<>>)>>),
                  Node("mediaSingle", <<Media(DetailWord.one)>>)>>),
    Node("doc", <<Node("mediaGroup", <<Media(DetailWord.one), Media(DetailWord.two)>>)>>),
    Node("doc", <<Node("mediaSingle", <<Media(Undefined)>>)>>),
    Node("doc", <<Node("mediaGroup", <<>>), Node("paragraph", <<Media(S0)>>)>>),
    Node("paragraph", <<TextNode(DetailWord.idToken2, <<>>), HardBreak,
                        TextNode(Token.ATTACHMENT, <<>>)>>),
    Node("paragraph", <<TextNode(Token.AttachmentId, <<>>), Media(DetailWord.one),
                        TextNode(Token.Close, <<>>)>>),
    Node("paragraph", <<TextNode(DetailWord.Click, <<OtherMark("strong"), LinkMark(DetailWord.href)>>),
                        Card("inlineCard", DetailWord.href), Card("blockCard", Undefined)>>),
    Node("unknown", <<StringNode(DetailWord.hi), TextNode(Undefined, <<LinkMark(DetailWord.href)>>)>>) }

AttachmentPool ==
  { Attachment(DetailWord.one, DetailWord.a_png, DetailWord.image_png),
    Attachment(DetailWord.one, DetailWord.idToken2, Undefined),
    Attachment(DetailWord.two, Token.ATTACHMENT, DetailWord.Image_PNG),
    Attachment(DetailWord.two, Undefined, DetailWord.text_plain),
    Attachment(S0, DetailWord.a_png, DetailWord.image_png) }

\* most attachments of an issue
MaxAttachments == 2
\* most comments of an issue
MaxComments == 1

\* the values of f.attachment
AttachmentLists == SeqsUpTo(AttachmentPool, MaxAttachments)

\* the values of f.comment.comments
CommentLists ==
  SeqsUpTo({[id |-> "10", author |-> "undefined", created |-> "undefined", body |-> d] :
              d \in Docs}, MaxComments)

KeyInputs ==
  {[kind |-> "key", key |-> k] : k \in {DetailWord.key, SP \o DetailWord.key \o SP}}

ProxyInputs ==
  {[kind |-> "proxy", contentUrl |-> u, filename |-> f] : u \in {NullParam, "", "https://jira/att/1"},
                      f \in {Undefined, <<"a", "\"", "b">>}}

---------------------------------------------------------------------------
(* Specifications *)

Init == InitWith({"list"}, {EnvAllSet}, {[kind |-> "none"]})

Next ==
  \/ ListGET
  \/ ListFetchOk(SimplePool, MaxIssues, {NullToken, "", "t1", "t2"},
                 {"absent", "true", "false"}, MaxPages + 1)
  \/ ListFetchNotOk
  \/ ListFetchThrows

\* The list operation against a server that may page without end.
Spec == Init /\ [][Next]_vars

\* most records one list request receives, specification with fairness
MaxFairIssues == 1

NextFair ==
  \/ ListGET
  \/ ListFetchOk({Issue("IMOSHELP-1", "a", <<>>)}, MaxFairIssues, {NullToken, "", "t1"},
                 {"absent", "true", "false"}, MaxPages + 1)
  \/ ListFetchNotOk
  \/ ListFetchThrows

\* The list operation when the handler's continuations run and every search
\* request is answered: it returns a response or it throws.
SpecFair ==
  /\ Init
  /\ [][NextFair]_vars
  /\ WF_vars(NextFair)

NextGroup ==
  \/ ListGET
  \/ ListFetchOk(RichPool, MaxGroupIssues, {NullToken, "t1"}, {"true", "false"},
                 GroupPageCap)
  \/ ListFetchNotOk
  \/ ListFetchThrows

\* The list operation against a server that ends the search by GroupPageCap,
\* with records that exercise grouping and ordering.
SpecGroup == Init /\ [][NextGroup]_vars

---------------------------------------------------------------------------
(* The release-name parser on its own *)

\* Labels of one, two and three tokens, with the white space a label can carry
Labels ==
  {lead \o y \o sep \o m \o tail :
     lead \in {S0, SP},
     y \in {Word.y2024, Word.y2000, Word.y2100, Word.y1999, Word.y2101,
            Word.y2024_5, ReleaseName.abc},
     sep \in {SP, SP \o SP, <<"\t">>},
     m \in MonthNames \cup {Word.Sausis, Word.GEGUZE_LT, ReleaseName.abc,
                            Word.constructor, Word.Constructor},
     tail \in {S0, SP, SP \o Word.extra}}
  \cup {S0, SP, Word.y2024, Word.y2024 \o SP, MonthWord.sausis, SP \o MonthWord.sausis}

\* parseLtFixVersion applied to the label
ParseLabel ==
  /\ op = "parse" /\ pc = "start"
  /\ parsed' = parseLtFixVersion(input.label)
  /\ pc' = "done"
  /\ UNCHANGED <<page, op, env, input, safety, nextPageToken, allIssuesRaw, inflight,
                 upstream, received, pages, response>>

InitParse == InitWith({"parse"}, {EnvAllSet}, {[kind |-> "label", label |-> l] : l \in Labels})

\* parseLtFixVersion on every label of Labels
SpecParse == InitParse /\ [][ParseLabel]_vars

\* adfToPlainText applied to the node
FlattenNode ==
  /\ op = "flatten" /\ pc = "start"
  /\ parsed' = [kind |-> "text", text |-> adfToPlainText(input.node)]
  /\ pc' = "done"
  /\ UNCHANGED <<page, op, env, input, safety, nextPageToken, allIssuesRaw, inflight,
                 upstream, received, pages, response>>

\* text nodes: literal texts with and without white space around them, under
\* mark lists with no, one or two link marks, with and without href
InitText ==
  InitWith({"flatten"}, {EnvAllSet},
           {[kind |-> "node", node |-> TextNode(t, ms)] :
              t \in {Undefined, S0, SP, SP \o SP, DetailWord.href, SP \o DetailWord.href,
                     DetailWord.href \o SP, SP \o DetailWord.href \o SP,
                     Token.NL \o DetailWord.href, DetailWord.Click, DetailWord.hi,
                     SP \o DetailWord.hi \o SP, DetailWord.href \o DetailWord.hi},
              ms \in {<<>>, <<OtherMark("strong")>>, <<LinkMark(DetailWord.href)>>,
                      <<OtherMark("strong"), LinkMark(DetailWord.href)>>,
                      <<LinkMark(DetailWord.href), LinkMark(DetailWord.hi)>>,
                      <<LinkMark(SP \o DetailWord.hi \o SP)>>,
                      <<LinkMark(Undefined)>>, <<LinkMark(S0)>>,
                      <<LinkMark(Undefined), LinkMark(DetailWord.href)>>}})

\* adfToPlainText on every text node of the inputs
SpecText == InitText /\ [][FlattenNode]_vars

NextPage ==
  \/ \E key \in {DetailWord.key, SP \o DetailWord.key \o SP, <<"K", "-", "2">>} :
       openIssue(key)
  \/ closeModal
  \/ openIssueResumes

InitPage == InitWith({"page"}, {EnvAllSet}, {[kind |-> "none"]})

\* The page: issues opened, the modal closed, detail calls resolving in any
\* order.
SpecPage == InitPage /\ [][NextPage]_vars

InitDetail == InitWith({"detail"}, {EnvAllSet}, KeyInputs)

NextDetail ==
  \/ DetailGET
  \/ DetailFetchOk(Docs, AttachmentLists, CommentLists)
  \/ DetailFetchNotOk
  \/ DetailFetchThrows

\* The detail operation on the documents and attachment lists of the inputs.
SpecDetail == InitDetail /\ [][NextDetail]_vars

InitConfig ==
  \E e \in {[{"JIRA_BASE_URL", "JIRA_EMAIL", "JIRA_API_TOKEN"} -> EnvValues]} :
    \/ InitWith({"list"}, e, {[kind |-> "none"]})
    \/ InitWith({"detail"}, e, KeyInputs)
    \/ InitWith({"attachment"}, e, ProxyInputs)

NextConfig ==
  \/ ListGET
  \/ ListFetchOk(SimplePool, 1, {NullToken, "t1"}, {"true", "false"}, GroupPageCap)
  \/ ListFetchNotOk
  \/ ListFetchThrows
  \/ DetailGET
  \/ DetailFetchOk({NullNode}, {<<>>}, {<<>>})
  \/ DetailFetchNotOk
  \/ DetailFetchThrows
  \/ AttachmentGET
  \/ AttachmentFetchOk
  \/ AttachmentFetchNotOk
  \/ AttachmentFetchThrows

\* The three operations under every configuration of the three settings.
SpecConfig == InitConfig /\ [][NextConfig]_vars

---------------------------------------------------------------------------
(* Properties of the list operation *)

RECURSIVE Flatten(_)
Flatten(seqs) == IF seqs = <<>> THEN <<>> ELSE Head(seqs) \o Flatten(Tail(seqs))

RECURSIVE SumLen(_)
SumLen(seqs) == IF seqs = <<>> THEN 0 ELSE Len(Head(seqs)) + SumLen(Tail(seqs))

Succeeded == pc = "done" /\ response.status = 200

\* the last answer asked for another page: success, isLast false, a cursor
AskedForMore ==
  /\ received.kind = "ok"
  /\ received.isLast = "false"
  /\ received.nextPageToken \notin {NullToken, ""}

\* C1: the accumulator is the concatenation, in order of arrival, of the pages
\* received (each record of each page once, pages in order, records in their
\* order within the page); and when the last page ends the search the answer
\* is a success whose total is the sum of the page sizes.
C1_PagesAccumulateInOrder ==
  /\ op = "list" => allIssuesRaw = Flatten(pages)
  /\ (op = "list" /\ pc = "done" /\ received.kind = "ok" /\ ~AskedForMore)
       => /\ response.status = 200
          /\ received.n \in 1..30
          /\ response.body.total = SumLen(pages)

\* C1 witness: three pages, one record each and not all the same record, the
\* third ending the search.
C1_Witness ==
  /\ Succeeded /\ received.n = 3 /\ Len(pages) = 3 /\ ~AskedForMore
  /\ pages[1] # pages[2]
  /\ allIssuesRaw = pages[1] \o pages[2] \o pages[3]

\* C2: one list request issues at most 30 search requests; when the 30th page
\* still asks for more, the operation answers with a success built from the
\* records of the 30 pages.
C2_AtMostThirtyRequests ==
  op = "list" =>
    /\ upstream <= 30
    /\ (pc = "done" /\ received.n = 30 /\ AskedForMore)
         => /\ response.status = 200
            /\ response.body.total = SumLen(pages)
            /\ response \in ListSuccess(Flatten(pages), env["JIRA_BASE_URL"])

\* C2 witness: the 30th page asked for more and the answer is a success
\* holding records.
C2_Witness ==
  /\ Succeeded /\ received.n = 30 /\ upstream = 30 /\ AskedForMore
  /\ response.body.total = 3

\* C3: a search response that is not a success ends the request at once: no
\* further search request, a 502 envelope {error, status, details} with the
\* upstream status and body, and neither total nor groups.
C3_UpstreamRejection ==
  (op = "list" /\ received.kind = "notok") =>
    /\ pc = "done"
    /\ inflight = NoRequest
    /\ upstream = received.n
    /\ response.status = 502
    /\ DOMAIN response.body = {"error", "status", "details"}
    /\ response.body.error = "Jira request failed"
    /\ response.body.status = received.status
    /\ response.body.details = received.text

\* C3 witness: the third response is rejected after two pages of records.
C3_Witness ==
  /\ op = "list" /\ received.kind = "notok" /\ received.n = 3
  /\ Len(pages) = 2 /\ response.status = 502 /\ response.body.status = 401

\* C10: requests and responses alternate; the first request has no cursor;
\* a further request is in flight exactly when the last response was a
\* success with isLast false and a non-empty cursor and fewer than 30
\* responses have arrived, and it carries that response's cursor.
C10_PageLoopSequencing ==
  (op = "list" /\ pc # "start") =>
    /\ upstream - received.n \in {0, 1}
    /\ pc = "await" <=> upstream = received.n + 1
    /\ (pc = "await" /\ upstream = 1) => inflight.cursor = NoCursor
    /\ (pc = "await" /\ upstream > 1)
         => /\ AskedForMore /\ received.n < 30
            /\ inflight.cursor = received.nextPageToken
    /\ (pc = "done" /\ received.n >= 1) => ~(AskedForMore /\ received.n < 30)

\* C10 witness: the third request is in flight with the cursor of the second
\* response, which differs from the cursor the second request carried.
C10_Witness ==
  /\ op = "list" /\ pc = "await" /\ upstream = 3 /\ received.n = 2
  /\ received.nextPageToken = "t2" /\ inflight.cursor = "t2"

---------------------------------------------------------------------------
(* Properties of grouping *)

Groups == response.body.groups

GroupNames == {Groups[i].fixVersion : i \in 1..Len(Groups)}

\* the records of the accumulator that name release n at least once
RecordsNaming(n) ==
  {r \in 1..Len(allIssuesRaw) :
     \E k \in 1..Len(allIssuesRaw[r].fixVersions) :
        allIssuesRaw[r].fixVersions[k].name = n}

\* the names a record lists, absent and empty ones left out
NamesOf(r) ==
  {allIssuesRaw[r].fixVersions[k].name : k \in 1..Len(allIssuesRaw[r].fixVersions)}
  \ {Undefined, S0}

\* C4: in the output no group lists the same record key twice.
C4_NoDuplicateKeysInGroup ==
  Succeeded =>
    \A g \in 1..Len(Groups) :
      \A i, j \in 1..Len(Groups[g].issues) :
        i # j => Groups[g].issues[i].key # Groups[g].issues[j].key

\* C5: a record contributes one entry to each release it names, however many
\* times it names it; names are told apart exactly (also by letter case), each
\* named release having one group of its own; entries with an absent or empty
\* name make no group.
C5_PerRecordDeduplication ==
  Succeeded =>
    /\ \A g \in 1..Len(Groups) :
         /\ Len(Groups[g].issues) = Cardinality(RecordsNaming(Groups[g].fixVersion))
         /\ Groups[g].fixVersion \notin {Undefined, S0}
         /\ \A h \in 1..Len(Groups) : g # h => Groups[g].fixVersion # Groups[h].fixVersion
    /\ GroupNames = UNION {NamesOf(r) : r \in 1..Len(allIssuesRaw)}

\* C5 witness: a single record that names one release twice, in one group
\* with one entry.
C5_Witness ==
  /\ Succeeded /\ Len(allIssuesRaw) = 1
  /\ Len(allIssuesRaw[1].fixVersions) = 2
  /\ allIssuesRaw[1].fixVersions[1].name = allIssuesRaw[1].fixVersions[2].name
  /\ allIssuesRaw[1].fixVersions[1].name = ReleaseName.n2024_sausis
  /\ Len(Groups) = 1 /\ Len(Groups[1].issues) = 1

\* the released value, null when absent, of the first entry named n in
\* accumulation order
FirstSeenReleased(n) ==
  LET r == CHOOSE x \in RecordsNaming(n) : \A y \in RecordsNaming(n) : x <= y
      fvs == allIssuesRaw[r].fixVersions
      k == CHOOSE x \in 1..Len(fvs) :
             /\ fvs[x].name = n
             /\ \A y \in 1..(x - 1) : fvs[y].name # n
  IN IF fvs[k].released = "undefined" THEN "null" ELSE fvs[k].released

\* the group named n among gs
GroupNamed(gs, n) == gs[CHOOSE i \in 1..Len(gs) : gs[i].fixVersion = n]

\* the groups after the first p accumulated records
GroupsAfter(p) ==
  GroupByFixVersion(<<>>, SubSeq(allIssuesRaw, 1, p), env["JIRA_BASE_URL"])

\* record p leaves every group that exists before it as it was, but for one
\* {key, summary, url} entry at the end of the groups the record names
FrameOfRecord(before, after, p) ==
  \A i \in 1..Len(before) :
    /\ after[i].fixVersion = before[i].fixVersion
    /\ after[i].released = before[i].released
    /\ after[i].issues =
         IF p \in RecordsNaming(before[i].fixVersion)
         THEN Append(before[i].issues,
                     [key |-> allIssuesRaw[p].key,
                      summary |-> IF allIssuesRaw[p].summary = "undefined" THEN ""
                                  ELSE allIssuesRaw[p].summary,
                      url |-> <<env["JIRA_BASE_URL"], "/browse/", allIssuesRaw[p].key>>])
         ELSE before[i].issues

\* C11: a group's released is that of the first entry with its name in
\* accumulation order (null when absent); a later record that names the
\* release leaves the group's released and its entries as they were and only
\* appends its own {key, summary, url} entry.
C11_ReleasedFirstSeenWins ==
  Succeeded =>
    /\ \A g \in 1..Len(Groups) :
         Groups[g].released = FirstSeenReleased(Groups[g].fixVersion)
    /\ \A p \in 1..Len(allIssuesRaw) :
         /\ FrameOfRecord(GroupsAfter(p - 1), GroupsAfter(p), p)
         /\ \A i \in 1..Len(GroupsAfter(p)) :
              GroupsAfter(p)[i].released =
                GroupNamed(Groups, GroupsAfter(p)[i].fixVersion).released

\* C11 witness: two records name one release with different released values;
\* the group has both entries and the released of the first.
C11_Witness ==
  /\ Succeeded /\ Len(allIssuesRaw) = 2 /\ Len(Groups) = 1
  /\ Len(allIssuesRaw[1].fixVersions) = 2 /\ Len(allIssuesRaw[2].fixVersions) = 1
  /\ allIssuesRaw[1].fixVersions[1].released = "false"
  /\ allIssuesRaw[1].fixVersions[2].released = "true"
  /\ allIssuesRaw[2].fixVersions[1].released = "true"
  /\ allIssuesRaw[1].key # allIssuesRaw[2].key
  /\ Groups[1].released = "false"
  /\ Len(Groups[1].issues) = 2

\* every name, absent and empty ones too, that an accumulated record lists
NamesListed ==
  UNION {{allIssuesRaw[r].fixVersions[k].name : k \in 1..Len(allIssuesRaw[r].fixVersions)} :
           r \in 1..Len(allIssuesRaw)}

\* the entries, in accumulation order, of the first p records that name n
RECURSIVE EntriesNaming(_, _)
EntriesNaming(n, p) ==
  IF p = 0 THEN <<>>
  ELSE IF p \in RecordsNaming(n)
       THEN Append(EntriesNaming(n, p - 1),
                   [key |-> allIssuesRaw[p].key,
                    summary |-> IF allIssuesRaw[p].summary = "undefined" THEN ""
                                ELSE allIssuesRaw[p].summary,
                    url |-> <<env["JIRA_BASE_URL"], "/browse/", allIssuesRaw[p].key>>])
       ELSE EntriesNaming(n, p - 1)

\* C14: the groups are exactly the non-empty names the accumulated records
\* list, one group a name; no group is empty; a group holds one entry for
\* each accumulated record naming it, a record met twice counting twice, in
\* accumulation order; total is the number of accumulated records.
C14_GroupMembership ==
  Succeeded =>
    /\ \A n \in NamesListed :
         (n \in GroupNames) <=> (n \notin {Undefined, S0} /\ RecordsNaming(n) # {})
    /\ \A g \in 1..Len(Groups) :
         /\ Groups[g].fixVersion \in NamesListed \ {Undefined, S0}
         /\ Groups[g].issues # <<>>
         /\ Groups[g].issues = EntriesNaming(Groups[g].fixVersion, Len(allIssuesRaw))
         /\ \A h \in 1..Len(Groups) : Groups[g].fixVersion = Groups[h].fixVersion => g = h
    /\ response.body.total = Len(allIssuesRaw)

\* C14 witness: two different records name one release, the second a further
\* one; the shared group has both entries in accumulation order and total (2)
\* differs from the sum of the group sizes (3).
C14_Witness ==
  /\ Succeeded /\ Len(allIssuesRaw) = 2 /\ Len(Groups) = 2
  /\ allIssuesRaw[1].key = "IMOSHELP-2" /\ allIssuesRaw[2].key = "IMOSHELP-1"
  /\ \E g \in 1..2 :
       /\ Len(Groups[g].issues) = 2
       /\ Groups[g].issues[1].key = "IMOSHELP-2"
       /\ Groups[g].issues[2].key = "IMOSHELP-1"
  /\ Len(Groups[1].issues) + Len(Groups[2].issues) = 3
  /\ response.body.total = 2

\* a name with a year and a month number, and its key year*100+month
HasNumericKey(n) ==
  parseLtFixVersion(n).ok /\ parseLtFixVersion(n).month.kind = "number"

Unparseable(n) == ~parseLtFixVersion(n).ok

\* C6: groups come in descending key order, unparseable names after the
\* parseable ones and in ascending name order among themselves.
C6_GroupOrder ==
  Succeeded =>
    \A i, j \in 1..Len(Groups) :
      i < j =>
        /\ (HasNumericKey(Groups[i].fixVersion) /\ HasNumericKey(Groups[j].fixVersion))
             => KeyDifference(monthKey(parseLtFixVersion(Groups[i].fixVersion)),
                              monthKey(parseLtFixVersion(Groups[j].fixVersion))).sign >= 0
        /\ ~(Unparseable(Groups[i].fixVersion) /\ HasNumericKey(Groups[j].fixVersion))
        /\ (Unparseable(Groups[i].fixVersion) /\ Unparseable(Groups[j].fixVersion))
             => localeCompare(Groups[i].fixVersion, Groups[j].fixVersion) <= 0

---------------------------------------------------------------------------
(* Properties of the release-name parser *)

LabelTokens == SplitWs(trim(input.label))

\* a token that is a decimal integer in [2000, 2100]
IsYearInRange(tok) ==
  tok # <<>> /\ AllDigits(tok) /\ DecVal(tok) >= 2000 /\ DecVal(tok) <= 2100

MonthOfName(m) ==
  LT_MONTH_TO_NUM[CHOOSE i \in 1..Len(LT_MONTH_TO_NUM) : LT_MONTH_TO_NUM[i][1] = m][2]

\* the label is "<year> <monthname>", year in range, monthname in the table
IsYearMonthLabel ==
  /\ Len(LabelTokens) = 2
  /\ input.label = LabelTokens[1] \o SP \o LabelTokens[2]
  /\ IsYearInRange(LabelTokens[1])
  /\ toLowerCase(LabelTokens[2]) \in MonthNames

\* the label the claim calls unparseable
IsBadLabel ==
  \/ Len(LabelTokens) < 2
  \/ ~IsYearInRange(LabelTokens[1])
  \/ /\ toLowerCase(JoinSp(Tail(LabelTokens))) \notin MonthNames
     /\ toLowerCase(LabelTokens[2]) \notin MonthNames

\* C8: "<year> <monthname>" with the year an integer in [2000,2100] and the
\* month name in the table parses to that year and the table's month; a label
\* of fewer than two tokens, or whose first token is no integer in
\* [2000,2100], or whose month words are not in the table, parses to null.
C8_ParserContract ==
  (op = "parse" /\ pc = "done") =>
    /\ IsYearMonthLabel
         => /\ parsed.ok
            /\ parsed.year = [finite |-> TRUE, num |-> DecVal(LabelTokens[1]), den |-> 1]
            /\ parsed.month = [kind |-> "number",
                               val |-> MonthOfName(toLowerCase(LabelTokens[2]))]
    /\ IsBadLabel => ~parsed.ok

---------------------------------------------------------------------------
(* Properties of the detail text *)

\* pat occurs in text at position i
OccursAt(text, i, pat) ==
  /\ i + Len(pat) - 1 <= Len(text)
  /\ \A k \in 1..Len(pat) : text[i + k - 1] = pat[k]

\* a bare [ATTACHMENT] token occurs in text
HasBareToken(text) ==
  \E i \in 1..Len(text) : OccursAt(text, i, Token.ATTACHMENT)

\* an [ATTACHMENT_ID:<id>] token occurs in text: the opening, an id of at
\* least one character without a closing bracket, the closing bracket
HasIdToken(text) ==
  \E i \in 1..Len(text) :
    /\ OccursAt(text, i, Token.AttachmentId)
    /\ \E j \in (i + Len(Token.AttachmentId) + 1)..Len(text) :
         /\ text[j] = "]"
         /\ \A k \in (i + Len(Token.AttachmentId))..(j - 1) : text[k] # "]"

DetailSucceeded == op = "detail" /\ pc = "done" /\ response.status = 200

\* C7: after flattening, trimming and resolving, the descriptionText and
\* every comment bodyText of a detail view contain no [ATTACHMENT_ID:<id>]
\* token and no bare [ATTACHMENT] token, whatever the documents and the
\* attachment list are.
C7_NoPlaceholderRemains ==
  DetailSucceeded =>
    /\ ~HasIdToken(response.body.descriptionText)
    /\ ~HasBareToken(response.body.descriptionText)
    /\ \A i \in 1..Len(response.body.comments) :
         /\ ~HasIdToken(response.body.comments[i].bodyText)
         /\ ~HasBareToken(response.body.comments[i].bodyText)

---------------------------------------------------------------------------
(* Properties of the configuration *)

Absent(v) == v = EnvUnset \/ v = ""

\* a setting the operation requires is absent or empty
RequiredMissing ==
  \/ op \in {"list", "detail"} /\ \E n \in DOMAIN env : Absent(env[n])
  \/ op = "attachment" /\ (Absent(env["JIRA_EMAIL"]) \/ Absent(env["JIRA_API_TOKEN"]))

LacksContentUrl == op = "attachment" /\ input.contentUrl \in {NullParam, ""}

IsErrorEnvelope(r) == r.status = 500 /\ DOMAIN r.body = {"error", "details"}

\* C9: once an operation has started with a required setting absent or
\* empty it has answered with the 500 envelope {error, details} and has made
\* no upstream request; the attachment proxy looks at contentUrl first, so a
\* request without it is answered 400, again with no upstream request.
C9_ConfigurationMissing ==
  pc # "start" =>
    /\ LacksContentUrl =>
         /\ pc = "done"
         /\ response.status = 400
         /\ upstream = 0
    /\ (RequiredMissing /\ ~LacksContentUrl) =>
         /\ pc = "done"
         /\ IsErrorEnvelope(response)
         /\ upstream = 0
         /\ inflight = NoRequest

\* C9 witness: the proxy, given a contentUrl and an empty token, has answered
\* 500 without an upstream request.
C9_Witness ==
  /\ op = "attachment" /\ pc = "done"
  /\ ~LacksContentUrl
  /\ env["JIRA_EMAIL"] = "set" /\ env["JIRA_API_TOKEN"] = ""
  /\ IsErrorEnvelope(response)
  /\ response.body.details = <<"Missing env var: ", "JIRA_API_TOKEN">>
  /\ upstream = 0

---------------------------------------------------------------------------
(* Properties of the flattener *)

Flattened == op = "flatten" /\ pc = "done"

\* the literal text of the node, empty when absent
LiteralText == IF input.node.text = Undefined THEN <<>> ELSE input.node.text

LinkMarks == {i \in 1..Len(input.node.marks) : input.node.marks[i].type = "link"}

\* the href of the node's link annotation (its first link mark)
HrefOfLink == input.node.marks[CHOOSE i \in LinkMarks : \A j \in LinkMarks : i <= j].href

HasHref == LinkMarks # {} /\ HrefOfLink # Undefined /\ HrefOfLink # <<>>

\* no link mark carries an href
NoHref ==
  \A i \in LinkMarks : input.node.marks[i].href = Undefined \/ input.node.marks[i].href = <<>>

WhitespaceOnly(t) == \A i \in 1..Len(t) : t[i] \in {" ", "\t", "\n"}

\* t without the white space around it
Stripped(t) ==
  IF WhitespaceOnly(t) THEN <<>>
  ELSE SubSeq(t, CHOOSE i \in 1..Len(t) :
                   ~WhitespaceOnly(<<t[i]>>) /\ WhitespaceOnly(SubSeq(t, 1, i - 1)),
                 CHOOSE j \in 1..Len(t) :
                   ~WhitespaceOnly(<<t[j]>>) /\ WhitespaceOnly(SubSeq(t, j + 1, Len(t))))

TextAndHref == LiteralText \o <<" ", "(">> \o HrefOfLink \o <<")">>

---------------------------------------------------------------------------
(* Properties of termination *)

IsListResponse(r) ==
  \/ r.status = 200 /\ DOMAIN r.body = {"total", "groups"}
  \/ r.status = 502 /\ DOMAIN r.body = {"error", "status", "details"}
  \/ r.status = 500 /\ DOMAIN r.body = {"error", "details"}

Responded == response.status # 0

\* C13: when every search request is answered, returning or throwing, a list
\* request ends with a response; the response is 200 {total, groups}, the
\* 502 envelope or the 500 envelope, a thrown exception giving the 500
\* envelope; once given, the response does not change and no search request
\* follows it; every search request is made once, none again after it failed.
C13_ExactlyOneResponse ==
  /\ <>(op = "list" /\ pc = "done" /\ Responded)
  /\ [](Responded => (pc = "done" /\ IsListResponse(response)))
  /\ [](pc = "done" => Responded)
  /\ [](received.kind = "throw" => (Responded /\ response.status = 500))
  /\ [](upstream = received.n + (IF pc = "await" THEN 1 ELSE 0))
  /\ [][Responded => (response' = response /\ upstream' = upstream)]_vars
  /\ [][received'.kind \in {"notok", "throw"} => upstream' = upstream]_vars

\* C13 witness: the second search request threw after a first page had
\* arrived, and the response is the 500 envelope after two requests.
C13_Witness ==
  /\ op = "list" /\ pc = "done"
  /\ received.kind = "throw" /\ received.n = 2 /\ upstream = 2
  /\ Len(pages) = 1
  /\ response.status = 500

---------------------------------------------------------------------------
(* Properties of the detail modal *)

\* a detail call for the selected issue has not resolved yet
SelectedOutstanding == \E call \in page.calls : call.key = page.selectedKey

\* C15: whenever details are held an issue is selected and the details are
\* those of the selected issue; and detailsLoading is false only when no
\* detail call for the selected issue is outstanding: the answer to a call
\* made for an issue opened earlier or closed since leaves the state of the
\* selected issue alone.
C15_ModalConsistency ==
  op = "page" =>
    /\ page.details # <<"#null">> =>
         /\ page.selectedKey # <<"#null">>
         /\ page.details = page.selectedKey
    /\ (page.selectedKey # <<"#null">> /\ ~page.detailsLoading) => ~SelectedOutstanding

=============================================================================
